---- MODULE Spec2Model ----
(***************************************************************************)
(* FoodBridge: the donation-to-NGO matching engine.                        *)
(*                                                                         *)
(*   src/db.py           get_ngos_by_capacity, create_user                 *)
(*   src/ai_features.py  suggest_best_ngo, simple_ngo_matching             *)
(*   src/geolocation.py  GeoLocationService, ProximityMatcher              *)
(*   src/pages/admin.py  deactivate_user, activate_user                    *)
(*                                                                         *)
(* Numbers.  Scores and the confidence are real numbers with at most three *)
(* decimals in the code; here they are integers counting thousandths       *)
(* (1.0 is 1000).  Distances are integers counting metres; distance_km,    *)
(* which the code rounds to two decimals, counts hundredths of a km.       *)
(*                                                                         *)
(* Optional values.  A Python None is the empty sequence, a present value  *)
(* x is the one-element sequence <<x>>.                                    *)
(***************************************************************************)
EXTENDS Integers, Sequences, FiniteSets, TLC

VARIABLES users, users_capacity_column, call,
          donations, donation_requests, available_donations

vars == <<users, users_capacity_column, call,
          donations, donation_requests, available_donations>>

\* no specification but SpecRequests touches the donation tables
requests == <<donations, donation_requests, available_donations>>

\* init_database (src/db.py:15-99) creates the tables donations and
\* donation_requests empty; no dashboard has loaded anything
NoDonations ==
  /\ donations = <<>>
  /\ donation_requests = <<>>
  /\ available_donations = <<>>

(***************************************************************************)
(* Bounds of the model.                                                    *)
(***************************************************************************)
\* longest candidate list handed directly to simple_ngo_matching
MaxCandidates == 4

\* capacities of the candidates handed directly to simple_ngo_matching
FallbackCapacities == {5, 10, 20, 40, 50, 90, 100}

\* donation quantities (non-negative; 20 and 50 are the fallback thresholds)
Quantities == {0, 15, 19, 20, 49, 50, 60}

(***************************************************************************)
(* Python values.                                                          *)
(***************************************************************************)
None == <<>>

Some(x) == <<x>>

\* list[i] for a Python index i (negative indexes count from the end);
\* None stands for IndexError.
ListIndex(list, i) ==
  LET n == Len(list)
      k == IF i < 0 THEN n + i ELSE i
  IN  IF k >= 0 /\ k < n THEN Some(list[k + 1]) ELSE None

\* list[:n]
ListPrefix(list, n) ==
  SubSeq(list, 1, IF n < Len(list) THEN n ELSE Len(list))

\* list[a:b] for 0 <= a <= b
ListSlice(list, a, b) ==
  SubSeq(list, a + 1, IF b < Len(list) THEN b ELSE Len(list))

\* sorted(list, key=..., reverse=True), where keys[i] is the key of list[i]:
\* Python's sort is stable, also with reverse=True, so equal keys keep their
\* order in list.
SortedDescending(list, keys) ==
  LET n == Len(list)
      Before(i, j) == \/ keys[i] > keys[j]
                      \/ keys[i] = keys[j] /\ i < j
      Rank(i) == 1 + Cardinality({j \in 1..n : Before(j, i)})
  IN  [k \in 1..n |-> list[CHOOSE i \in 1..n : Rank(i) = k]]

\* list.sort(key=...): stable, ascending.
SortedAscending(list, keys) ==
  LET n == Len(list)
      Before(i, j) == \/ keys[i] < keys[j]
                      \/ keys[i] = keys[j] /\ i < j
      Rank(i) == 1 + Cardinality({j \in 1..n : Before(j, i)})
  IN  [k \in 1..n |-> list[CHOOSE i \in 1..n : Rank(i) = k]]

\* the elements of a list, as a set
Elements(list) == {list[i] : i \in 1..Len(list)}

(***************************************************************************)
(* Match results: the dictionaries returned by the matchers.               *)
(***************************************************************************)
\* a returned dictionary; confidence is None where the code sets no such key
MatchResult(suggested, reasoning, confidence, alternatives) ==
  [raised |-> FALSE, suggested_ngo |-> suggested, reasoning |-> reasoning,
   confidence |-> confidence, alternatives |-> alternatives]

\* the call ended with an uncaught exception instead of a dictionary
Raised ==
  [raised |-> TRUE, suggested_ngo |-> None, reasoning |-> "",
   confidence |-> None, alternatives |-> <<>>]

(***************************************************************************)
(* simple_ngo_matching, the rule-based fallback (src/ai_features.py).      *)
(***************************************************************************)
\* line 281: key=lambda x: x.get('capacity', 0)
capacity_key(ngos) == [k \in 1..Len(ngos) |-> ngos[k].capacity]

\* lines 284-293: the branch on the donation quantity
select_ngo_wrong_branch(quantity, sorted_ngos) ==
  IF quantity >= 50 THEN ListIndex(sorted_ngos, 0)
  ELSE IF quantity >= 20 THEN ListIndex(sorted_ngos, -1)
  ELSE ListIndex(sorted_ngos, Len(sorted_ngos) \div 2)

select_ngo(quantity, sorted_ngos) ==
  IF quantity >= 50 THEN ListIndex(sorted_ngos, 0)
  ELSE IF quantity >= 20
    THEN LET mid_index == Len(sorted_ngos) \div 2
         IN  IF mid_index < Len(sorted_ngos)
               THEN ListIndex(sorted_ngos, mid_index)
               ELSE ListIndex(sorted_ngos, 0)
  ELSE ListIndex(sorted_ngos, -1)

select_reasoning(quantity) ==
  IF quantity >= 50 THEN "Matched with highest capacity NGO for large donation"
  ELSE IF quantity >= 20
    THEN "Matched with medium capacity NGO for moderate donation"
  ELSE "Matched with appropriate capacity NGO for small donation"

\* line 295: [ngo for ngo in sorted_ngos[:3] if ngo != suggested_ngo]
simple_alternatives_keep_selected(sorted_ngos, suggested_ngo) ==
  ListPrefix(sorted_ngos, 3)

simple_alternatives(sorted_ngos, suggested_ngo) ==
  SelectSeq(ListPrefix(sorted_ngos, 3), LAMBDA ngo : ngo /= suggested_ngo)

simple_ngo_matching_no_empty_check(quantity, available_ngos) ==
  LET sorted_ngos == SortedDescending(available_ngos, capacity_key(available_ngos))
      suggested == select_ngo(quantity, sorted_ngos)
  IN  IF suggested = None THEN Raised
      ELSE MatchResult(suggested, select_reasoning(quantity), Some(700),
                       simple_alternatives(sorted_ngos, suggested[1]))

simple_ngo_matching(quantity, available_ngos) ==
  IF available_ngos = <<>>
    THEN MatchResult(None, "No NGOs available", None, <<>>)
  ELSE LET sorted_ngos == SortedDescending(available_ngos, capacity_key(available_ngos))
           suggested == select_ngo(quantity, sorted_ngos)
       IN  IF suggested = None THEN Raised
           ELSE MatchResult(suggested, select_reasoning(quantity), Some(700),
                            simple_alternatives(sorted_ngos, suggested[1]))

(***************************************************************************)
(* Specification SpecFallback: simple_ngo_matching as a function of its    *)
(* arguments.  The candidates are numbered by their position in the list   *)
(* that is passed in, in any order of capacities.                          *)
(***************************************************************************)
CandidateLists ==
  UNION {[1..n -> FallbackCapacities] : n \in 0..MaxCandidates}

AsCandidates(caps) == [i \in 1..Len(caps) |-> [id |-> i, capacity |-> caps[i]]]

InitFallback ==
  /\ users = <<>>
  /\ users_capacity_column = FALSE
  /\ \E quantity \in Quantities, caps \in CandidateLists :
       call = [op |-> "arguments", quantity |-> quantity,
               available_ngos |-> AsCandidates(caps)]
  /\ NoDonations

SimpleNgoMatchingCall ==
  /\ call.op = "arguments"
  /\ call' = [op |-> "simple_ngo_matching", quantity |-> call.quantity,
              available_ngos |-> call.available_ngos,
              result |-> simple_ngo_matching(call.quantity, call.available_ngos)]
  /\ UNCHANGED <<users, users_capacity_column, requests>>

NextFallback == SimpleNgoMatchingCall

SpecFallback == InitFallback /\ [][NextFallback]_vars

(***************************************************************************)
(* The NGO directory (src/db.py).  users holds the rows of role 'NGO' in   *)
(* the order of their ids: users[i] is the row with users.id = i joined    *)
(* with its ngo_profiles row and, if it has one, its user_locations row.   *)
(*   is_active   users.is_active                                           *)
(*   capacity    ngo_profiles.capacity                                     *)
(*   location    user_locations.latitude (None: no user_locations row)     *)
(*   ucapacity   users.capacity, the column find_nearby_ngos reads         *)
(***************************************************************************)
\* most NGOs in the directory
MaxNgos == 3

\* values of ngo_profiles.capacity: 0 (the least the data model allows),
\* 50 (the column's default) and 100 (what create_user stores)
ProfileCapacities == {0, 50, 100}

\* quantities of the donations that are matched against the directory
DonationQuantities == {10, 20, 50}

\* most entries of alternative_ids in a reply of the AI service
MaxAlternativeIds == 2

\* min_capacity arguments of get_ngos_by_capacity (0 is the default)
MinCapacities == {0, 50, 101}

NgoRow(active, capacity, location, ucapacity) ==
  [is_active |-> active, capacity |-> capacity, location |-> location,
   ucapacity |-> ucapacity]

\* the enumerations of a finite set, each element once: the orders in which
\* a query without a deciding ORDER BY may return its rows
RECURSIVE RowOrders(_)
RowOrders(S) ==
  IF S = {} THEN {<<>>}
  ELSE UNION {{<<x>> \o o : o \in RowOrders(S \ {x})} : x \in S}

\* get_ngos_by_capacity(min_capacity): the lists the query may return.
\* ORDER BY np.capacity DESC leaves the order of equal capacities open.
get_ngos_by_capacity_includes_inactive(directory, min_capacity) ==
  LET qualifying == {i \in 1..Len(directory) :
                       directory[i].capacity >= min_capacity}
      descending(o) == \A k \in 1..(Len(o) - 1) :
                         directory[o[k]].capacity >= directory[o[k + 1]].capacity
  IN  {[k \in 1..Len(o) |-> [id |-> o[k], capacity |-> directory[o[k]].capacity]] :
         o \in {p \in RowOrders(qualifying) : descending(p)}}

get_ngos_by_capacity(directory, min_capacity) ==
  LET qualifying == {i \in 1..Len(directory) :
                       /\ directory[i].is_active
                       /\ directory[i].capacity >= min_capacity}
      descending(o) == \A k \in 1..(Len(o) - 1) :
                         directory[o[k]].capacity >= directory[o[k + 1]].capacity
  IN  {[k \in 1..Len(o) |-> [id |-> o[k], capacity |-> directory[o[k]].capacity]] :
         o \in {p \in RowOrders(qualifying) : descending(p)}}

(***************************************************************************)
(* suggest_best_ngo (src/ai_features.py).  What the AI service does is an  *)
(* input: ai.kind is                                                       *)
(*   "no_client"    initialize_openai returned None (no API key)           *)
(*   "call_raises"  building the client or the completion call raised      *)
(*   "empty_reply"  the reply's content is None or ""                      *)
(*   "unparseable"  json.loads raised, or the JSON is not an object        *)
(*   "reply"        a JSON object; recommended_ngo_id 0 stands for an id   *)
(*                  no NGO has (ids start at 1) or for a missing key       *)
(* The import line of the module (line 4) does not bind the name OpenAI    *)
(* that initialize_openai calls; where it is unbound, every request with   *)
(* an API key is a "call_raises".  The reasoning and the confidence of a   *)
(* reply are passed through unread; the model writes the defaults of       *)
(* lines 251-252 for them.                                                 *)
(***************************************************************************)
AIUnavailable == {"no_client", "call_raises", "empty_reply", "unparseable"}

AIOutcome(kind, recommended_ngo_id, alternative_ids) ==
  [kind |-> kind, recommended_ngo_id |-> recommended_ngo_id,
   alternative_ids |-> alternative_ids]

AlternativeIdLists ==
  UNION {[1..n -> 0..MaxNgos] : n \in 0..MaxAlternativeIds}

AIOutcomes ==
  {AIOutcome(kind, 0, <<>>) : kind \in AIUnavailable}
    \cup {AIOutcome("reply", r, a) : r \in 0..MaxNgos, a \in AlternativeIdLists}

\* lines 235-239 and 244-247: the first NGO of the list with the given id
find_ngo(available_ngos, ngo_id) ==
  LET matches == SelectSeq(available_ngos, LAMBDA ngo : ngo.id = ngo_id)
  IN  ListIndex(matches, 0)

\* lines 242-247: one NGO per alternative id that is in the list
RECURSIVE find_alternatives(_, _)
find_alternatives(available_ngos, alternative_ids) ==
  IF alternative_ids = <<>> THEN <<>>
  ELSE find_ngo(available_ngos, Head(alternative_ids))
         \o find_alternatives(available_ngos, Tail(alternative_ids))

suggest_best_ngo_ignores_fallback(quantity, available_ngos, ai) ==
  IF available_ngos = <<>>
    THEN MatchResult(None, "No NGOs currently available in the system.",
                     None, <<>>)
  ELSE MatchResult(find_ngo(available_ngos, ai.recommended_ngo_id),
                   "AI-based matching", Some(800),
                   find_alternatives(available_ngos, ai.alternative_ids))

\* available_ngos is what get_ngos_by_capacity() returned: every caller
\* leaves the parameter of that name at its default, the empty list.
suggest_best_ngo(quantity, available_ngos, ai) ==
  IF available_ngos = <<>>
    THEN MatchResult(None, "No NGOs currently available in the system.",
                     None, <<>>)
  ELSE IF ai.kind \in AIUnavailable
    THEN simple_ngo_matching(quantity, available_ngos)
  ELSE MatchResult(find_ngo(available_ngos, ai.recommended_ngo_id),
                   "AI-based matching", Some(800),
                   find_alternatives(available_ngos, ai.alternative_ids))

(***************************************************************************)
(* Specification Spec: the directory and suggest_best_ngo.                 *)
(***************************************************************************)
NoCall == [op |-> "none"]

ProfileRows ==
  {NgoRow(active, capacity, None, None) :
     active \in BOOLEAN, capacity \in ProfileCapacities}

Init ==
  /\ users \in UNION {[1..n -> ProfileRows] : n \in 0..MaxNgos}
  /\ users_capacity_column = FALSE
  /\ call = NoCall
  /\ NoDonations

\* create_user(..., role='NGO'): a users row and its ngo_profiles row
CreateUser ==
  /\ Len(users) < MaxNgos
  /\ users' = Append(users, NgoRow(TRUE, 100, None, None))
  /\ call' = NoCall
  /\ UNCHANGED <<users_capacity_column, requests>>

DeactivateUser ==
  \E user_id \in 1..Len(users) :
    /\ users' = [users EXCEPT ![user_id].is_active = FALSE]
    /\ call' = NoCall
    /\ UNCHANGED <<users_capacity_column, requests>>

ActivateUser ==
  \E user_id \in 1..Len(users) :
    /\ users' = [users EXCEPT ![user_id].is_active = TRUE]
    /\ call' = NoCall
    /\ UNCHANGED <<users_capacity_column, requests>>

\* One request at a time is recorded in call; the record is dropped when the
\* directory changes, so every request is made in every directory.
SuggestBestNgoCall ==
  /\ call = NoCall
  /\ \E available_ngos \in get_ngos_by_capacity(users, 0) :
       \E quantity \in DonationQuantities, ai \in AIOutcomes :
         call' = [op |-> "suggest_best_ngo", quantity |-> quantity, ai |-> ai,
                  available_ngos |-> available_ngos,
                  result |-> suggest_best_ngo(quantity, available_ngos, ai)]
  /\ UNCHANGED <<users, users_capacity_column, requests>>

\* get_ngos_by_capacity called on its own, with any threshold
GetNgosByCapacityCall ==
  /\ call = NoCall
  /\ \E min_capacity \in MinCapacities :
       \E result \in get_ngos_by_capacity(users, min_capacity) :
         call' = [op |-> "get_ngos_by_capacity", min_capacity |-> min_capacity,
                  result |-> result]
  /\ UNCHANGED <<users, users_capacity_column, requests>>

Next ==
  \/ CreateUser
  \/ DeactivateUser
  \/ ActivateUser
  \/ SuggestBestNgoCall
  \/ GetNgosByCapacityCall

Spec == Init /\ [][Next]_vars

(***************************************************************************)
(* GeoLocationService (src/geolocation.py).                                *)
(*                                                                         *)
(* Locations.  All locations of the model lie on one meridian; a latitude  *)
(* is the distance in metres from a reference point of that meridian.  On  *)
(* a meridian dlon = 0, so the haversine formula gives a = sin^2(dlat/2),  *)
(* c = |dlat| and the distance r * |dlat|: the difference of the two       *)
(* latitudes.                                                              *)
(***************************************************************************)
\* most NGOs in the directory of the proximity specification
MaxLocatedNgos == 4

\* latitudes of the NGOs that have a user_locations row
NgoLatitudes == {5000, 5010, 26000}

\* values of users.capacity, where the users table has that column
UserCapacities == {10, 20, 60}

\* quantities of the donations matched by proximity
ProximityQuantities == {10, 20}

\* a donor_location dictionary; a key the dictionary lacks is None.  The
\* longitude of a point of the meridian is the meridian's.
DonorLocation(latitude, longitude) ==
  Some([latitude |-> latitude, longitude |-> longitude])

\* the donor's location: None, a dictionary without coordinates, one with a
\* latitude only, or the reference point of the meridian
DonorLocations ==
  {None, DonorLocation(None, None), DonorLocation(Some(0), None),
   DonorLocation(Some(0), Some(0))}

\* line 267: not donor_location or 'latitude' not in donor_location
location_missing_null_only(donor_location) == donor_location = None

location_missing(donor_location) ==
  donor_location = None \/ donor_location[1].latitude = None

\* max_distance_km of a request, in metres (25 km is the default)
MaxDistances == {5010, 25000}

Abs(x) == IF x < 0 THEN -x ELSE x

\* round(n / d) to the nearest integer, exact halves to the even neighbour
\* (Python's round), for n >= 0 and d > 0
RoundDiv_truncating(n, d) == n \div d

RoundDiv(n, d) ==
  LET q == n \div d
      r == n % d
  IN  IF 2 * r < d THEN q
      ELSE IF 2 * r > d THEN q + 1
      ELSE IF q % 2 = 0 THEN q ELSE q + 1

\* calculate_distance, in metres, for two points of the meridian
calculate_distance(lat1, lat2) == Abs(lat2 - lat1)

\* _calculate_proximity_score, in thousandths
calculate_proximity_score_no_cutoff(distance, max_distance) ==
  IF distance >= max_distance
    THEN -RoundDiv(1000 * (distance - max_distance), max_distance)
  ELSE RoundDiv(1000 * (max_distance - distance), max_distance)

calculate_proximity_score(distance, max_distance) ==
  IF distance >= max_distance THEN 0
  ELSE RoundDiv(1000 * (max_distance - distance), max_distance)

\* lines 174-185: the dictionary built for the row of NGO ngo_id
nearby_ngo(directory, ngo_id, donor_latitude, max_distance) ==
  LET ngo_lat == directory[ngo_id].location[1]
      distance == calculate_distance(donor_latitude, ngo_lat)
  IN  [id |-> ngo_id, capacity |-> directory[ngo_id].ucapacity[1],
       latitude |-> ngo_lat, distance_km |-> RoundDiv(distance, 10),
       proximity_score |-> calculate_proximity_score(distance, max_distance)]

\* line 188: key=lambda x: x['distance_km']
distance_key(ngos) == [k \in 1..Len(ngos) |-> ngos[k].distance_km]

\* the rows of the query of lines 156-163: NGOs joined with user_locations,
\* with users.capacity >= min_capacity (a NULL capacity never compares >=)
nearby_rows(directory, min_capacity) ==
  {i \in 1..Len(directory) :
     /\ directory[i].location /= None
     /\ directory[i].ucapacity /= None
     /\ directory[i].ucapacity[1] >= min_capacity}

\* find_nearby_ngos, for the rows of the query in the order row_order.
\* The users table that init_database creates (src/db.py:21-32) has no
\* capacity column; the query then fails, the except clause of lines
\* 192-194 catches the error and the result is the empty list.
find_nearby_ngos_no_radius(directory, capacity_column, row_order, donor_latitude, max_distance) ==
  IF ~capacity_column THEN <<>>
  ELSE LET ngos_with_distance ==
             [k \in 1..Len(row_order) |->
                nearby_ngo(directory, row_order[k], donor_latitude, max_distance)]
       IN  SortedAscending(ngos_with_distance, distance_key(ngos_with_distance))

find_nearby_ngos(directory, capacity_column, row_order, donor_latitude, max_distance) ==
  IF ~capacity_column THEN <<>>
  ELSE LET in_range(ngo_id) ==
             calculate_distance(donor_latitude, directory[ngo_id].location[1])
               <= max_distance
           kept == SelectSeq(row_order, in_range)
           ngos_with_distance ==
             [k \in 1..Len(kept) |->
                nearby_ngo(directory, kept[k], donor_latitude, max_distance)]
       IN  SortedAscending(ngos_with_distance, distance_key(ngos_with_distance))

(***************************************************************************)
(* ProximityMatcher (src/geolocation.py).                                  *)
(***************************************************************************)
\* _calculate_capacity_score, in thousandths
calculate_capacity_score_strict_tiers(ngo_capacity, donation_quantity) ==
  IF ngo_capacity >= donation_quantity
    THEN IF ngo_capacity < donation_quantity * 2 THEN 1000
         ELSE IF ngo_capacity < donation_quantity * 5 THEN 800
         ELSE 600
  ELSE 300

calculate_capacity_score(ngo_capacity, donation_quantity) ==
  IF ngo_capacity >= donation_quantity
    THEN IF ngo_capacity <= donation_quantity * 2 THEN 1000
         ELSE IF ngo_capacity <= donation_quantity * 5 THEN 800
         ELSE 600
  ELSE 300

\* lines 314 and 319: round(proximity * 0.6 + capacity * 0.4, 3)
combined_score_weights_swapped(proximity_score, capacity_score) ==
  RoundDiv(4 * proximity_score + 6 * capacity_score, 10)

combined_score(proximity_score, capacity_score) ==
  RoundDiv(6 * proximity_score + 4 * capacity_score, 10)

\* lines 308-323: the enhanced profile of one nearby NGO
enhanced_ngo_unweighted(ngo, quantity) ==
  LET capacity_score == calculate_capacity_score(ngo.capacity, quantity)
  IN  [id |-> ngo.id, capacity |-> ngo.capacity, latitude |-> ngo.latitude,
       distance_km |-> ngo.distance_km, proximity_score |-> ngo.proximity_score,
       capacity_score |-> capacity_score,
       combined_score |-> ngo.proximity_score + capacity_score]

enhanced_ngo(ngo, quantity) ==
  LET capacity_score == calculate_capacity_score(ngo.capacity, quantity)
  IN  [id |-> ngo.id, capacity |-> ngo.capacity, latitude |-> ngo.latitude,
       distance_km |-> ngo.distance_km, proximity_score |-> ngo.proximity_score,
       capacity_score |-> capacity_score,
       combined_score |-> combined_score(ngo.proximity_score, capacity_score)]

\* line 326: key=lambda x: x['combined_score']
combined_key(ngos) == [k \in 1..Len(ngos) |-> ngos[k].combined_score]

\* line 330: enhanced_ngos[1:4] if len(enhanced_ngos) > 1 else []
alternatives_from_top(enhanced_ngos) ==
  IF Len(enhanced_ngos) > 1 THEN ListSlice(enhanced_ngos, 0, 3) ELSE <<>>

alternatives_after_top(enhanced_ngos) ==
  IF Len(enhanced_ngos) > 1 THEN ListSlice(enhanced_ngos, 1, 4) ELSE <<>>

\* the dictionaries get_enhanced_ngo_recommendations returns: a match
\* result with the proximity_enabled flag, and total_nearby where it is set
EnhancedResult(result, proximity_enabled, total_nearby) ==
  [raised |-> result.raised, suggested_ngo |-> result.suggested_ngo,
   reasoning |-> result.reasoning, confidence |-> result.confidence,
   alternatives |-> result.alternatives,
   proximity_enabled |-> proximity_enabled, total_nearby |-> total_nearby]

\* _combine_recommendations; base_suggestions is not read by the code
combine_recommendations(base_suggestions, nearby_ngos, quantity) ==
  LET scored_ngos == [k \in 1..Len(nearby_ngos) |->
                        enhanced_ngo(nearby_ngos[k], quantity)]
      enhanced_ngos == SortedDescending(scored_ngos, combined_key(scored_ngos))
      top_ngo == ListIndex(enhanced_ngos, 0)
  IN  EnhancedResult(
        MatchResult(top_ngo,
                    IF top_ngo /= None
                      THEN "Selected as the best match"
                      ELSE "No suitable NGOs found nearby",
                    None, alternatives_after_top(enhanced_ngos)),
        TRUE, Some(Len(nearby_ngos)))

get_enhanced_ngo_recommendations_keeps_base(quantity, donor_location, base_suggestions, nearby_ngos) ==
  IF base_suggestions.raised THEN EnhancedResult(Raised, FALSE, None)
  ELSE IF location_missing(donor_location)
    THEN EnhancedResult(base_suggestions, FALSE, None)
  ELSE IF donor_location[1].longitude = None
    THEN EnhancedResult(Raised, FALSE, None)
  ELSE EnhancedResult(base_suggestions, TRUE, Some(Len(nearby_ngos)))

\* get_enhanced_ngo_recommendations, given what its two reads returned:
\* base_suggestions from suggest_best_ngo, nearby_ngos from find_nearby_ngos
\* (not called, and not looked at, without a donor location).  Line 277
\* raises KeyError for a dictionary with a latitude and no longitude.
get_enhanced_ngo_recommendations(quantity, donor_location, base_suggestions, nearby_ngos) ==
  IF base_suggestions.raised THEN EnhancedResult(Raised, FALSE, None)
  ELSE IF location_missing(donor_location)
    THEN EnhancedResult(base_suggestions, FALSE, None)
  ELSE IF donor_location[1].longitude = None
    THEN EnhancedResult(Raised, FALSE, None)
  ELSE IF nearby_ngos = <<>>
    THEN EnhancedResult(base_suggestions, TRUE, None)
  ELSE combine_recommendations(base_suggestions, nearby_ngos, quantity)

(***************************************************************************)
(* Specification SpecProximity: the directory with locations and           *)
(* get_enhanced_ngo_recommendations.  The directory is either the one of   *)
(* init_database, whose users table has no capacity column, or one whose   *)
(* users table carries the capacity column that find_nearby_ngos selects   *)
(* (CREATE TABLE IF NOT EXISTS keeps a table that is already there).       *)
(* Rows are listed in a fixed order of their attributes: the order of the  *)
(* ids plays no part in the matching, and the queries return the rows in   *)
(* any order.  The profile capacities are pairwise different.              *)
(***************************************************************************)
ProximityAIOutcomes ==
  {AIOutcome("no_client", 0, <<>>), AIOutcome("reply", 0, <<>>),
   AIOutcome("reply", 1, <<1>>)}

LocationCode(location) == IF location = None THEN 100000 ELSE location[1]

CapacityCode(ucapacity) == IF ucapacity = None THEN 1000 ELSE ucapacity[1]

RowCode(row) == LocationCode(row.location) * 10000 + CapacityCode(row.ucapacity)

LocatedRows(capacity_column) ==
  {[location |-> Some(lat), ucapacity |-> ucap] :
     lat \in NgoLatitudes,
     ucap \in IF capacity_column THEN {Some(c) : c \in UserCapacities} ELSE {None}}

InitProximity ==
  /\ users_capacity_column \in BOOLEAN
  /\ \E n \in 0..MaxLocatedNgos :
       \E rows \in [1..n -> LocatedRows(users_capacity_column)] :
         /\ \A i \in 1..(n - 1) : RowCode(rows[i]) <= RowCode(rows[i + 1])
         /\ users = [i \in 1..n |->
                       NgoRow(TRUE, 10 * i, rows[i].location, rows[i].ucapacity)]
  /\ call = NoCall
  /\ NoDonations

CreateUserProximity ==
  /\ Len(users) < MaxLocatedNgos
  /\ users' = Append(users, NgoRow(TRUE, 100, None, None))
  /\ call' = NoCall
  /\ UNCHANGED <<users_capacity_column, requests>>

GetEnhancedNgoRecommendationsCall ==
  /\ call = NoCall
  /\ \E quantity \in ProximityQuantities, donor_location \in DonorLocations,
        max_distance \in MaxDistances, include_capacity_match \in BOOLEAN :
       LET min_capacity == IF include_capacity_match THEN quantity ELSE 1
           searched == /\ ~location_missing(donor_location)
                       /\ donor_location[1].longitude /= None
           orders == IF searched
                       THEN RowOrders(nearby_rows(users, min_capacity))
                     ELSE {<<>>}
           nearby_lists ==
             {IF searched
                THEN find_nearby_ngos(users, users_capacity_column, o,
                                      donor_location[1].latitude[1], max_distance)
              ELSE <<>> :
                o \in orders}
       IN  \E nearby_ngos \in nearby_lists,
              available_ngos \in get_ngos_by_capacity(users, 0),
              ai \in ProximityAIOutcomes :
             LET base_suggestions == suggest_best_ngo(quantity, available_ngos, ai)
             IN  call' = [op |-> "get_enhanced_ngo_recommendations",
                          quantity |-> quantity,
                          donor_location |-> donor_location,
                          max_distance_km |-> max_distance,
                          include_capacity_match |-> include_capacity_match,
                          nearby_ngos |-> nearby_ngos,
                          result |-> get_enhanced_ngo_recommendations(
                                       quantity, donor_location,
                                       base_suggestions, nearby_ngos)]
  /\ UNCHANGED <<users, users_capacity_column, requests>>

NextProximity ==
  \/ CreateUserProximity
  \/ GetEnhancedNgoRecommendationsCall

SpecProximity == InitProximity /\ [][NextProximity]_vars

(***************************************************************************)
(* Specification SpecScores: the two scorers as functions of their         *)
(* arguments.  No maximum distance of the model divides 2000 times a       *)
(* difference of distances an odd number of times, so that no score lies   *)
(* exactly halfway between two thousandths.                                *)
(***************************************************************************)
\* largest NGO capacity handed to _calculate_capacity_score
MaxScoreCapacity == 30

\* largest donation quantity handed to _calculate_capacity_score
MaxScoreQuantity == 5

\* max_distance arguments of _calculate_proximity_score, in metres
ScoreMaxDistances == {1000, 5010, 25000}

\* distance arguments of _calculate_proximity_score, in metres
ScoreDistances ==
  {0, 1, 500, 999, 1000, 5000, 5009, 5010, 24987, 24988, 24990, 24999,
   25000, 30000}

InitScores ==
  /\ users = <<>>
  /\ users_capacity_column = FALSE
  /\ \/ \E ngo_capacity \in 0..MaxScoreCapacity,
           donation_quantity \in 0..MaxScoreQuantity :
          call = [op |-> "capacity_arguments", ngo_capacity |-> ngo_capacity,
                  donation_quantity |-> donation_quantity]
     \/ \E distance \in ScoreDistances, max_distance \in ScoreMaxDistances :
          call = [op |-> "proximity_arguments", distance |-> distance,
                  max_distance |-> max_distance]
  /\ NoDonations

CalculateCapacityScoreCall_prefers_large ==
  /\ call.op = "capacity_arguments"
  /\ call' = [op |-> "_calculate_capacity_score",
              ngo_capacity |-> call.ngo_capacity,
              donation_quantity |-> call.donation_quantity,
              result |-> 1300 - calculate_capacity_score(call.ngo_capacity,
                                                         call.donation_quantity)]
  /\ UNCHANGED <<users, users_capacity_column, requests>>

CalculateCapacityScoreCall ==
  /\ call.op = "capacity_arguments"
  /\ call' = [op |-> "_calculate_capacity_score",
              ngo_capacity |-> call.ngo_capacity,
              donation_quantity |-> call.donation_quantity,
              result |-> calculate_capacity_score(call.ngo_capacity,
                                                  call.donation_quantity)]
  /\ UNCHANGED <<users, users_capacity_column, requests>>

CalculateProximityScoreCall ==
  /\ call.op = "proximity_arguments"
  /\ call' = [op |-> "_calculate_proximity_score",
              distance |-> call.distance, max_distance |-> call.max_distance,
              result |-> calculate_proximity_score(call.distance,
                                                   call.max_distance)]
  /\ UNCHANGED <<users, users_capacity_column, requests>>

NextScores ==
  \/ CalculateCapacityScoreCall
  \/ CalculateProximityScoreCall

SpecScores == InitScores /\ [][NextScores]_vars

(***************************************************************************)
(* calculate_distance for two points anywhere on a grid of the sphere      *)
(* (src/geolocation.py:51-74).  Coordinates are degrees, multiples of 30.  *)
(* After math.radians an angle is counted in steps of 15 degrees, so that  *)
(* dlat / 2 and dlon / 2 are whole numbers of steps.  Sines and cosines    *)
(* are hundredths, a is ten-thousandths, the result is whole kilometres.   *)
(* For two points of one meridian dlon is 0, a is sin^2(dlat / 2) and the  *)
(* result is the radius times |dlat|: the operator calculate_distance      *)
(* above.                                                                  *)
(***************************************************************************)
\* line 72: r = 6371
EarthRadiusKm == 6371

\* latitudes and longitudes of the grid, in degrees
GridLatitudes == {-30, 0, 30, 60}

GridLongitudes == {0, 30, 60, 120}

\* max_distance_km of the scores computed from grid distances
GridMaxDistances == {25, 5000}

\* math.radians of a multiple of 30 degrees, in steps of 15 degrees
radians(degrees) == degrees \div 15

\* 100 * sin of 0, 15, ..., 90 degrees
SineTable == <<0, 26, 50, 71, 87, 97, 100>>

\* math.sin of an angle of between -12 and 12 steps: sin(-x) = -sin(x),
\* sin(180 - x) = sin(x)
sin(x) ==
  LET k == Abs(x)
      s == IF k <= 6 THEN SineTable[k + 1] ELSE SineTable[13 - k]
  IN  IF x < 0 THEN -s ELSE s

\* math.cos of an angle of between -6 and 6 steps: cos(x) = sin(90 - |x|)
cos(x) == sin(6 - Abs(x))

\* math.sqrt of ten-thousandths, in hundredths
sqrt(a) == CHOOSE s \in 0..100 : s * s <= a /\ a < (s + 1) * (s + 1)

\* math.asin of hundredths, in degrees: between two entries of the sine
\* table the angle grows linearly
asin(s) ==
  IF s >= 100 THEN 90
  ELSE LET k == CHOOSE j \in 0..5 : SineTable[j + 1] <= s /\ s < SineTable[j + 2]
       IN  15 * k + RoundDiv(15 * (s - SineTable[k + 1]),
                             SineTable[k + 2] - SineTable[k + 1])

\* line 68: sin(dlat/2)**2 + cos(lat1) * cos(lat2) * sin(dlon/2)**2
haversine_a_one_latitude(lat1, lon1, lat2, lon2) ==
  LET dlat == lat2 - lat1
      dlon == lon2 - lon1
  IN  sin(dlat \div 2) * sin(dlat \div 2)
        + RoundDiv(cos(lat1) * cos(lat1) * sin(dlon \div 2) * sin(dlon \div 2),
                   10000)

haversine_a(lat1, lon1, lat2, lon2) ==
  LET dlat == lat2 - lat1
      dlon == lon2 - lon1
  IN  sin(dlat \div 2) * sin(dlat \div 2)
        + RoundDiv(cos(lat1) * cos(lat2) * sin(dlon \div 2) * sin(dlon \div 2),
                   10000)

\* lines 63-74: c = 2 * asin(sqrt(a)) in degrees, times r * pi / 180
calculate_distance_on_sphere_complement(lat1, lon1, lat2, lon2) ==
  LET a == haversine_a(radians(lat1), radians(lon1), radians(lat2), radians(lon2))
      c == 2 * asin(sqrt(10000 - a))
  IN  RoundDiv(RoundDiv(EarthRadiusKm * 31416, 18000) * c, 100)

calculate_distance_on_sphere(lat1, lon1, lat2, lon2) ==
  LET a == haversine_a(radians(lat1), radians(lon1), radians(lat2), radians(lon2))
      c == 2 * asin(sqrt(a))
  IN  RoundDiv(RoundDiv(EarthRadiusKm * 31416, 18000) * c, 100)

(***************************************************************************)
(* Specification SpecDistance: calculate_distance as a function of two     *)
(* points, and the proximity score of the distance (line 185).             *)
(***************************************************************************)
GridPoints ==
  {[latitude |-> lat, longitude |-> lon] :
     lat \in GridLatitudes, lon \in GridLongitudes}

InitDistance ==
  /\ users = <<>>
  /\ users_capacity_column = FALSE
  /\ \E point1 \in GridPoints, point2 \in GridPoints :
       call = [op |-> "points", point1 |-> point1, point2 |-> point2]
  /\ NoDonations

CalculateDistanceCall ==
  /\ call.op = "points"
  /\ call' = [op |-> "calculate_distance", point1 |-> call.point1,
              point2 |-> call.point2,
              result |-> calculate_distance_on_sphere(
                           call.point1.latitude, call.point1.longitude,
                           call.point2.latitude, call.point2.longitude)]
  /\ UNCHANGED <<users, users_capacity_column, requests>>

\* line 185: the proximity score of the distance just calculated
ProximityScoreOfDistanceCall ==
  /\ call.op = "calculate_distance"
  /\ \E max_distance \in GridMaxDistances :
       call' = [op |-> "_calculate_proximity_score", point1 |-> call.point1,
                point2 |-> call.point2, distance |-> call.result,
                max_distance |-> max_distance,
                result |-> calculate_proximity_score(call.result, max_distance)]
  /\ UNCHANGED <<users, users_capacity_column, requests>>

NextDistance ==
  \/ CalculateDistanceCall
  \/ ProximityScoreOfDistanceCall

SpecDistance == InitDistance /\ [][NextDistance]_vars

(***************************************************************************)
(* Specification SpecConcurrent: one get_enhanced_ngo_recommendations      *)
(* request running while other requests change the directory.  The request *)
(* queries the database twice, each time on a connection of its own:       *)
(* suggest_best_ngo calls get_ngos_by_capacity (line 264), and             *)
(* find_nearby_ngos runs its own query (lines 275-280).  Deactivations,    *)
(* activations and saved locations of other requests commit between the    *)
(* two.  call.snapshots collects the states the directory went through     *)
(* while the request ran.  The users table has the capacity column.  An    *)
(* NGO has a user_locations row once it has saved a location.              *)
(***************************************************************************)
\* most NGOs in the directory of the concurrent specification
MaxConcurrentNgos == 2

\* most changes of the directory that commit while one request runs
MaxConcurrentUpdates == 2

\* latitudes of the NGOs: within 25 km of the donor, and beyond
ConcurrentLatitudes == {5000, 26000}

\* users.capacity of every NGO of the concurrent specification
ConcurrentUserCapacity == 20

ConcurrentDonorLocations == {None, DonorLocation(Some(0), Some(0))}

ConcurrentAIOutcomes == {AIOutcome("no_client", 0, <<>>)}

InitConcurrent ==
  /\ users_capacity_column = TRUE
  /\ \E n \in 0..MaxConcurrentNgos :
       \E active \in [1..n -> BOOLEAN],
          location \in [1..n -> {None} \cup {Some(lat) : lat \in ConcurrentLatitudes}] :
         users = [i \in 1..n |->
                    NgoRow(active[i], 10 * i, location[i],
                           Some(ConcurrentUserCapacity))]
  /\ call = NoCall
  /\ NoDonations

\* the request after line 264; without a donor location it returns there
Pending(quantity, donor_location, ai, base_suggestions) ==
  [op |-> "get_enhanced_ngo_recommendations:275", quantity |-> quantity,
   donor_location |-> donor_location, max_distance_km |-> 25000,
   include_capacity_match |-> TRUE, ai |-> ai,
   base_suggestions |-> base_suggestions, snapshots |-> {users}, updates |-> 0]

Returned(request, nearby_ngos) ==
  [op |-> "get_enhanced_ngo_recommendations", quantity |-> request.quantity,
   donor_location |-> request.donor_location,
   max_distance_km |-> request.max_distance_km,
   include_capacity_match |-> request.include_capacity_match,
   ai |-> request.ai, nearby_ngos |-> nearby_ngos,
   snapshots |-> request.snapshots,
   result |-> get_enhanced_ngo_recommendations(
                request.quantity, request.donor_location,
                request.base_suggestions, nearby_ngos)]

\* lines 264-272: the first read, and the return without a donor location
SuggestBestNgoRead ==
  /\ call = NoCall
  /\ \E available_ngos \in get_ngos_by_capacity(users, 0) :
       \E quantity \in ProximityQuantities,
          donor_location \in ConcurrentDonorLocations,
          ai \in ConcurrentAIOutcomes :
         LET request == Pending(quantity, donor_location, ai,
                                suggest_best_ngo(quantity, available_ngos, ai))
         IN  call' = IF location_missing(donor_location)
                       THEN Returned(request, <<>>)
                     ELSE request
  /\ UNCHANGED <<users, users_capacity_column, requests>>

\* lines 275-295: the second read, and the return
FindNearbyNgosRead_deactivates ==
  /\ call.op = "get_enhanced_ngo_recommendations:275"
  /\ LET min_capacity == IF call.include_capacity_match THEN call.quantity
                         ELSE 1
     IN  \E row_order \in RowOrders(nearby_rows(users, min_capacity)) :
           call' = Returned(call,
                            find_nearby_ngos(users, users_capacity_column,
                                             row_order,
                                             call.donor_location[1].latitude[1],
                                             call.max_distance_km))
  /\ users' = [i \in 1..Len(users) |-> [users[i] EXCEPT !.is_active = FALSE]]
  /\ UNCHANGED <<users_capacity_column, requests>>

FindNearbyNgosRead ==
  /\ call.op = "get_enhanced_ngo_recommendations:275"
  /\ LET min_capacity == IF call.include_capacity_match THEN call.quantity
                         ELSE 1
     IN  \E row_order \in RowOrders(nearby_rows(users, min_capacity)) :
           call' = Returned(call,
                            find_nearby_ngos(users, users_capacity_column,
                                             row_order,
                                             call.donor_location[1].latitude[1],
                                             call.max_distance_km))
  /\ UNCHANGED <<users, users_capacity_column, requests>>

\* what a change of the directory to new_users does to the record of the
\* request: a running request goes on, a returned one is dropped
Observed(new_users) ==
  IF call.op = "get_enhanced_ngo_recommendations:275"
    THEN [call EXCEPT !.snapshots = @ \cup {new_users}, !.updates = @ + 1]
  ELSE NoCall

CanUpdate ==
  call.op = "get_enhanced_ngo_recommendations:275" =>
    call.updates < MaxConcurrentUpdates

ConcurrentDeactivateUser ==
  /\ CanUpdate
  /\ \E user_id \in 1..Len(users) :
       /\ users[user_id].is_active
       /\ users' = [users EXCEPT ![user_id].is_active = FALSE]
  /\ call' = Observed(users')
  /\ UNCHANGED <<users_capacity_column, requests>>

ConcurrentActivateUser ==
  /\ CanUpdate
  /\ \E user_id \in 1..Len(users) :
       /\ ~users[user_id].is_active
       /\ users' = [users EXCEPT ![user_id].is_active = TRUE]
  /\ call' = Observed(users')
  /\ UNCHANGED <<users_capacity_column, requests>>

\* save_user_location: INSERT OR REPLACE of the user_locations row
ConcurrentSaveUserLocation ==
  /\ CanUpdate
  /\ \E user_id \in 1..Len(users), latitude \in ConcurrentLatitudes :
       /\ users[user_id].location /= Some(latitude)
       /\ users' = [users EXCEPT ![user_id].location = Some(latitude)]
  /\ call' = Observed(users')
  /\ UNCHANGED <<users_capacity_column, requests>>

NextConcurrent ==
  \/ SuggestBestNgoRead
  \/ FindNearbyNgosRead
  \/ ConcurrentDeactivateUser
  \/ ConcurrentActivateUser
  \/ ConcurrentSaveUserLocation

SpecConcurrent == InitConcurrent /\ [][NextConcurrent]_vars

(***************************************************************************)
(* Specification SpecSubmission: the submission of one donation by         *)
(* show_donate_page (src/pages/donate.py).  After the donation is stored   *)
(* the page calls suggest_best_ngo to choose the NGOs it notifies (lines   *)
(* 172-210) and, for a Fresh donation, calls it again to show the          *)
(* recommended NGO (lines 317-337).  Each call reads the directory and     *)
(* asks the AI service anew; other requests change the directory in        *)
(* between.  Every create_notification succeeds.                           *)
(***************************************************************************)
\* most NGOs in the directory of the submission specification
MaxSubmissionNgos == 2

\* most changes of the directory between the two suggest_best_ngo calls
MaxSubmissionUpdates == 1

\* quality_prediction of the donation (src/model.py:61-70, donate.py:143)
Qualities == {"Fresh", "Expires Soon", "Expired"}

InitSubmission ==
  /\ users \in UNION {[1..n -> ProfileRows] : n \in 0..MaxSubmissionNgos}
  /\ users_capacity_column = FALSE
  /\ call = NoCall
  /\ NoDonations

\* lines 191-197: the suggested NGO and the first two alternatives
matching_ngos(ngo_suggestion) ==
  ngo_suggestion.suggested_ngo \o ListPrefix(ngo_suggestion.alternatives, 2)

\* notify_new_donation: one notification per entry of the list, addressed
\* to the user with the entry's id
notify_new_donation(ngos) == [k \in 1..Len(ngos) |-> ngos[k].id]

\* lines 172-210: choose and notify the matching NGOs
NotifyMatchingNgos ==
  /\ call = NoCall
  /\ \E available_ngos \in get_ngos_by_capacity(users, 0) :
       \E quantity \in ProximityQuantities, quality_prediction \in Qualities,
          ai \in ProximityAIOutcomes :
         LET ngo_suggestion == suggest_best_ngo(quantity, available_ngos, ai)
             notified ==
               IF quality_prediction \in {"Fresh", "Expires Soon", "Expires Today"}
                 THEN notify_new_donation(matching_ngos(ngo_suggestion))
               ELSE <<>>
         IN  call' = [op |-> "show_donate_page:317", quantity |-> quantity,
                      quality_prediction |-> quality_prediction,
                      notified |-> notified, updates |-> 0]
  /\ UNCHANGED <<users, users_capacity_column, requests>>

\* lines 317-337: show the recommended NGO of a Fresh donation
RecommendNgo ==
  /\ call.op = "show_donate_page:317"
  /\ \E available_ngos \in get_ngos_by_capacity(users, 0) :
       \E ai \in ProximityAIOutcomes :
         LET ngo_suggestion == suggest_best_ngo(call.quantity, available_ngos, ai)
         IN  call' = [op |-> "show_donate_page", quantity |-> call.quantity,
                      quality_prediction |-> call.quality_prediction,
                      notified |-> call.notified,
                      recommended_ngo |->
                        IF call.quality_prediction = "Fresh"
                          THEN ngo_suggestion.suggested_ngo
                        ELSE None]
  /\ UNCHANGED <<users, users_capacity_column, requests>>

\* what a change of the directory does to the record of the submission:
\* a submission between its two calls goes on, a finished one is dropped
AfterUpdate ==
  IF call.op = "show_donate_page:317"
    THEN [call EXCEPT !.updates = @ + 1]
  ELSE NoCall

CanUpdateDirectory ==
  call.op = "show_donate_page:317" => call.updates < MaxSubmissionUpdates

SubmissionCreateUser ==
  /\ CanUpdateDirectory
  /\ Len(users) < MaxSubmissionNgos
  /\ users' = Append(users, NgoRow(TRUE, 100, None, None))
  /\ call' = AfterUpdate
  /\ UNCHANGED <<users_capacity_column, requests>>

SubmissionDeactivateUser ==
  /\ CanUpdateDirectory
  /\ \E user_id \in 1..Len(users) :
       /\ users[user_id].is_active
       /\ users' = [users EXCEPT ![user_id].is_active = FALSE]
  /\ call' = AfterUpdate
  /\ UNCHANGED <<users_capacity_column, requests>>

SubmissionActivateUser ==
  /\ CanUpdateDirectory
  /\ \E user_id \in 1..Len(users) :
       /\ ~users[user_id].is_active
       /\ users' = [users EXCEPT ![user_id].is_active = TRUE]
  /\ call' = AfterUpdate
  /\ UNCHANGED <<users_capacity_column, requests>>

NextSubmission ==
  \/ NotifyMatchingNgos
  \/ RecommendNgo
  \/ SubmissionCreateUser
  \/ SubmissionDeactivateUser
  \/ SubmissionActivateUser

SpecSubmission == InitSubmission /\ [][NextSubmission]_vars

(***************************************************************************)
(* Specification SpecRequests: pickup requests of the NGO dashboard        *)
(* (src/pages/dashboard.py).  Each NGO's session loads the available       *)
(* donations (show_available_donations_tab, line 68), shows a request      *)
(* button per loaded donation and, when the request form of a loaded       *)
(* donation is submitted, calls create_donation_request (lines 183-188).   *)
(* The sessions of different NGOs interleave; every create_donation,       *)
(* get_available_donations and create_donation_request is one transaction  *)
(* on its own connection.  donations[d] is the row with id d and           *)
(* donation_requests[r] the row with id r.                                 *)
(***************************************************************************)
\* most rows of the table donations
MaxDonations == 2

\* most rows of the table donation_requests
MaxRequests == 3

\* the NGOs with a dashboard session: users 1 and 2
RequestingNgos == {1, 2}

\* quality_prediction of the stored donations
DonationQualities == {"Fresh", "Expires Soon"}

InitRequests ==
  /\ users = [ngo_id \in RequestingNgos |-> NgoRow(TRUE, 100, None, None)]
  /\ users_capacity_column = FALSE
  /\ call = NoCall
  /\ donations = <<>>
  /\ donation_requests = <<>>
  /\ available_donations = [ngo_id \in RequestingNgos |-> <<>>]

\* get_available_donations: the ids of the rows with status 'Available'
\* and quality_prediction 'Fresh', newest first
get_available_donations(rows) ==
  LET newest[k \in 0..Len(rows)] ==
        IF k = 0 THEN <<>>
        ELSE IF rows[k].status = "Available" /\ rows[k].quality_prediction = "Fresh"
               THEN <<k>> \o newest[k - 1]
             ELSE newest[k - 1]
  IN  newest[Len(rows)]

\* create_donation: a new row, status by the column default 'Available'
CreateDonation ==
  /\ Len(donations) < MaxDonations
  /\ \E quality_prediction \in DonationQualities :
       donations' = Append(donations, [status |-> "Available",
                                       quality_prediction |-> quality_prediction])
  /\ call' = [op |-> "create_donation", donation_id |-> Len(donations) + 1]
  /\ UNCHANGED <<users, users_capacity_column, donation_requests,
                 available_donations>>

\* show_available_donations_tab of one NGO's session: load the donations
\* the page shows with their request buttons
ShowAvailableDonationsTab ==
  /\ \E ngo_id \in RequestingNgos :
       /\ available_donations' =
            [available_donations EXCEPT ![ngo_id] = get_available_donations(donations)]
       /\ call' = [op |-> "show_available_donations_tab", ngo_id |-> ngo_id]
  /\ UNCHANGED <<users, users_capacity_column, donations, donation_requests>>

\* create_donation_request: insert the request row (status by the column
\* default 'Pending'), then set the donation's status
create_donation_request(donation_id, ngo_id) ==
  /\ donation_requests' = Append(donation_requests,
                                 [donation_id |-> donation_id, ngo_id |-> ngo_id,
                                  status |-> "Pending"])
  /\ donations' = [donations EXCEPT ![donation_id].status = "Requested"]

\* request_pickup_modal of one NGO's session, submitted for a donation the
\* session has loaded; st.rerun shows the page again
RequestPickup ==
  /\ Len(donation_requests) < MaxRequests
  /\ \E ngo_id \in RequestingNgos :
       \E k \in 1..Len(available_donations[ngo_id]) :
         LET donation_id == available_donations[ngo_id][k]
         IN  /\ create_donation_request(donation_id, ngo_id)
             /\ available_donations' =
                  [available_donations EXCEPT
                     ![ngo_id] = get_available_donations(donations')]
             /\ call' = [op |-> "create_donation_request",
                         donation_id |-> donation_id, ngo_id |-> ngo_id,
                         before |-> donations[donation_id].status]
  /\ UNCHANGED <<users, users_capacity_column>>

NextRequests ==
  \/ CreateDonation
  \/ ShowAvailableDonationsTab
  \/ RequestPickup

SpecRequests == InitRequests /\ [][NextRequests]_vars

(***************************************************************************)
(* The claims.                                                             *)
(***************************************************************************)
MatchingOps ==
  {"simple_ngo_matching", "suggest_best_ngo", "get_enhanced_ngo_recommendations"}

HasResult == call.op \in MatchingOps

IsCall(op) == call.op = op

\* the list is in descending order of capacity
CapacityDescending(ngos) ==
  \A k \in 1..(Len(ngos) - 1) : ngos[k].capacity >= ngos[k + 1].capacity

\* C1 (as claimed): suggest_best_ngo never raises, and whenever the AI
\* service is unavailable its result is exactly the result of
\* simple_ngo_matching for the same donation and the same candidate list.
C1_FallbackWheneverAIUnavailable ==
  IsCall("suggest_best_ngo") =>
    /\ ~call.result.raised
    /\ call.ai.kind \in AIUnavailable =>
         call.result = simple_ngo_matching(call.quantity, call.available_ngos)

\* C1 (amended): suggest_best_ngo never raises; whenever the AI service is
\* unavailable and the candidate list is not empty, its result is exactly
\* the result of simple_ngo_matching for the same donation and candidates;
\* for an empty candidate list it returns, whatever the AI service does, the
\* null selection and empty alternatives of simple_ngo_matching with its own
\* reasoning string "No NGOs currently available in the system.".
C1_FallbackWhenCandidatesExist ==
  IsCall("suggest_best_ngo") =>
    LET fallback == simple_ngo_matching(call.quantity, call.available_ngos)
    IN  /\ ~call.result.raised
        /\ call.available_ngos /= <<>> /\ call.ai.kind \in AIUnavailable =>
             call.result = fallback
        /\ call.available_ngos = <<>> =>
             call.result =
               [fallback EXCEPT
                  !.reasoning = "No NGOs currently available in the system."]

C1_Witness ==
  /\ IsCall("suggest_best_ngo")
  /\ call.ai.kind = "call_raises"
  /\ Len(call.available_ngos) >= 2
  /\ call.result.suggested_ngo /= None
  /\ call.result.confidence = Some(700)

\* C2: simple_ngo_matching never raises, for any quantity >= 0 and any
\* candidate list; for the empty list it returns a null suggested_ngo, no
\* alternatives and the non-empty reasoning "No NGOs available".
C2_FallbackTotal ==
  IsCall("simple_ngo_matching") =>
    /\ ~call.result.raised
    /\ call.available_ngos = <<>> =>
         /\ call.result.suggested_ngo = None
         /\ call.result.alternatives = <<>>
         /\ call.result.reasoning = "No NGOs available"
         /\ call.result.reasoning /= ""

C2_Witness ==
  /\ IsCall("simple_ngo_matching")
  /\ call.available_ngos = <<>>
  /\ call.quantity >= 50
  /\ ~call.result.raised
  /\ call.result.reasoning = "No NGOs available"

C4_ZeroCapacityNeverSelected ==
  HasResult /\ call.result.suggested_ngo /= None =>
    call.result.suggested_ngo[1].capacity /= 0

C6_SelectionByQuantity ==
  ( /\ IsCall("simple_ngo_matching")
    /\ call.available_ngos /= <<>>
    /\ CapacityDescending(call.available_ngos) ) =>
    LET ngos == call.available_ngos
        n == Len(ngos)
        expected == IF call.quantity >= 50 THEN ngos[1]
                    ELSE IF call.quantity >= 20 THEN ngos[(n \div 2) + 1]
                    ELSE ngos[n]
    IN  call.result.suggested_ngo = Some(expected)

C6_Witness ==
  /\ IsCall("simple_ngo_matching")
  /\ Len(call.available_ngos) = 4
  /\ \A k \in 1..3 :
       call.available_ngos[k].capacity > call.available_ngos[k + 1].capacity
  /\ call.quantity \in 20..49
  /\ call.result.suggested_ngo = Some(call.available_ngos[3])

\* C7: for a non-empty candidate list, the alternatives of
\* simple_ngo_matching are the first three candidates of the descending
\* order of capacity without the selected one, in that order: ids 2, 3 for
\* capacities 100/40/10 and quantity 60; capacities 90, 50, 20 for
\* candidates 90/50/20/5 and quantity 15.
C7_AlternativesAreTopThree ==
  ( IsCall("simple_ngo_matching") /\ call.available_ngos /= <<>> ) =>
    LET order == SortedDescending(call.available_ngos, capacity_key(call.available_ngos))
        n == Len(order)
        top == IF n < 3 THEN n ELSE 3
        selected == call.result.suggested_ngo[1]
        kept == {k \in 1..top : order[k].id /= selected.id}
        alternatives == call.result.alternatives
        capacities(ngos) == [k \in 1..Len(ngos) |-> ngos[k].capacity]
        ids(ngos) == [k \in 1..Len(ngos) |-> ngos[k].id]
    IN  /\ call.result.suggested_ngo /= None
        /\ Len(alternatives) = Cardinality(kept)
        /\ \A k \in kept :
             alternatives[Cardinality({j \in kept : j <= k})] = order[k]
        /\ ( capacities(call.available_ngos) = <<100, 40, 10>>
             /\ call.quantity = 60 ) =>
               selected.id = 1 /\ ids(alternatives) = <<2, 3>>
        /\ ( capacities(call.available_ngos) = <<90, 50, 20, 5>>
             /\ call.quantity = 15 ) =>
               selected.capacity = 5 /\ capacities(alternatives) = <<90, 50, 20>>

C7_Witness ==
  /\ IsCall("simple_ngo_matching")
  /\ call.quantity = 15
  /\ Len(call.available_ngos) = 4
  /\ [k \in 1..4 |-> call.available_ngos[k].capacity] = <<20, 90, 5, 50>>
  /\ [k \in 1..3 |-> call.result.alternatives[k].capacity] = <<90, 50, 20>>
  /\ call.result.suggested_ngo[1].capacity = 5

\* the ranking of a combined result: the selected NGO, then the alternatives
Ranking ==
  call.result.suggested_ngo \o call.result.alternatives

\* the combined ranker has run: a donor location and at least one NGO in range
Combined ==
  /\ IsCall("get_enhanced_ngo_recommendations")
  /\ ~location_missing(call.donor_location)
  /\ call.nearby_ngos /= <<>>

\* the combined score the ranker gives to a nearby NGO of the request
ScoreOf(ngo) == enhanced_ngo(ngo, call.quantity).combined_score

\* C8: with a donor location and at least one NGO in range, the result is
\* ordered by combined_score descending: suggested_ngo is rank 1, the
\* alternatives are ranks 2 to 4 (at most 3), in rank order, and no scored
\* candidate has a higher combined_score than the selected one.
C8_RankedByCombinedScore ==
  Combined =>
    LET nearby == call.nearby_ngos
        n == Len(nearby)
        ranked == Ranking
        unranked == {k \in 1..n :
                       \A j \in 1..Len(ranked) : ranked[j].id /= nearby[k].id}
    IN  /\ call.result.suggested_ngo /= None
        /\ Len(ranked) = IF n < 4 THEN n ELSE 4
        /\ \A j \in 1..Len(ranked) :
             \E k \in 1..n : /\ nearby[k].id = ranked[j].id
                             /\ ScoreOf(nearby[k]) = ranked[j].combined_score
        /\ \A i, j \in 1..Len(ranked) : i /= j => ranked[i].id /= ranked[j].id
        /\ \A j \in 1..(Len(ranked) - 1) :
             ranked[j].combined_score >= ranked[j + 1].combined_score
        /\ \A k \in unranked :
             ScoreOf(nearby[k]) <= ranked[Len(ranked)].combined_score
        /\ \A k \in 1..n :
             ScoreOf(nearby[k]) <= call.result.suggested_ngo[1].combined_score

C8_Witness ==
  /\ Combined
  /\ Len(call.nearby_ngos) = 4
  /\ Len(call.result.alternatives) = 3
  /\ call.result.suggested_ngo[1].combined_score
       > call.result.alternatives[1].combined_score
  /\ call.result.alternatives[1].combined_score
       > call.result.alternatives[3].combined_score
  /\ call.result.suggested_ngo[1].id /= call.nearby_ngos[1].id

\* C9: every candidate of the combined ranking has combined_score =
\* proximity_score * 0.6 + capacity_score * 0.4, rounded to 3 decimals, for
\* its own proximity score (that of its distance) and its own capacity score.
C9_CombinedScoreFormula ==
  Combined =>
    \A j \in 1..Len(Ranking) :
      LET ngo == Ranking[j]
          exact10 == 6 * ngo.proximity_score + 4 * ngo.capacity_score
      IN  /\ 2 * Abs(10 * ngo.combined_score - exact10) <= 10
          /\ \E k \in 1..Len(call.nearby_ngos) :
               /\ call.nearby_ngos[k].id = ngo.id
               /\ call.nearby_ngos[k].proximity_score = ngo.proximity_score
               /\ call.nearby_ngos[k].capacity = ngo.capacity
          /\ ngo.capacity = users[ngo.id].ucapacity[1]
          /\ ngo.capacity_score =
               ( IF ngo.capacity < call.quantity THEN 300
                 ELSE IF ngo.capacity <= 2 * call.quantity THEN 1000
                 ELSE IF ngo.capacity <= 5 * call.quantity THEN 800
                 ELSE 600 )

C9_Witness ==
  /\ Combined
  /\ \E i, j \in 1..Len(Ranking) :
       /\ Ranking[i].proximity_score = 2
       /\ Ranking[i].capacity_score = 300
       /\ Ranking[i].combined_score = 121
       /\ Ranking[j].proximity_score = 0
       /\ Ranking[j].capacity_score = 1000
       /\ Ranking[j].combined_score = 400

C11_CapacityScoreTiers ==
  IsCall("_calculate_capacity_score") /\ call.donation_quantity > 0 =>
    LET capacity == call.ngo_capacity
        quantity == call.donation_quantity
    IN  /\ capacity < quantity => call.result = 300
        /\ quantity <= capacity /\ capacity <= 2 * quantity => call.result = 1000
        /\ 2 * quantity < capacity /\ capacity <= 5 * quantity => call.result = 800
        /\ capacity > 5 * quantity => call.result = 600

C11_Witness ==
  /\ IsCall("_calculate_capacity_score")
  /\ call.donation_quantity = 5
  /\ call.ngo_capacity = 25
  /\ call.result = 800

\* C12: _calculate_proximity_score(distance, max_distance) returns 0.0 when
\* distance >= max_distance, and otherwise 1.0 - distance / max_distance
\* rounded to 3 decimals: the thousandth nearest to the exact value.
C12_ProximityScoreRounded ==
  IsCall("_calculate_proximity_score") =>
    LET distance == call.distance
        max_distance == call.max_distance
    IN  /\ distance >= max_distance => call.result = 0
        /\ distance < max_distance =>
             2 * Abs(call.result * max_distance
                       - 1000 * (max_distance - distance)) <= max_distance

C12_Witness ==
  /\ IsCall("_calculate_proximity_score")
  /\ call.distance = 5000
  /\ call.max_distance = 5010
  /\ call.result = 2

\* C13 (as claimed): the proximity score is exactly 0.0 when distance >=
\* max_distance and strictly positive for every distance in
\* [0, max_distance), however close to max_distance.
C13_PositiveBelowMax ==
  IsCall("_calculate_proximity_score") =>
    /\ call.distance >= call.max_distance => call.result = 0
    /\ call.distance < call.max_distance => call.result > 0

\* C13 (amended): the proximity score is exactly 0.0 when distance >=
\* max_distance and never negative; for a distance in [0, max_distance) it
\* is strictly positive where 1 - distance / max_distance is above 0.0005
\* and is the rounded value 0.0 where 1 - distance / max_distance is below
\* 0.0005.
C13_PositiveUnlessRoundedToZero ==
  IsCall("_calculate_proximity_score") =>
    LET distance == call.distance
        max_distance == call.max_distance
    IN  /\ call.result >= 0
        /\ distance >= max_distance => call.result = 0
        /\ 2000 * (max_distance - distance) > max_distance => call.result > 0
        /\ ( distance < max_distance
             /\ 2000 * (max_distance - distance) < max_distance ) =>
               call.result = 0

C13_Witness ==
  /\ IsCall("_calculate_proximity_score")
  /\ call.max_distance = 25000
  /\ call.distance = 24987
  /\ call.result = 1

\* the distance between the donor of the request and the stored location of
\* the NGO with the given id
DistanceToDonor(ngo_id) ==
  calculate_distance(call.donor_location[1].latitude[1],
                     users[ngo_id].location[1])

\* C14: candidates farther from the donor than max_distance_km are excluded
\* before scoring: every NGO that find_nearby_ngos returns, and so every NGO
\* that the combined ranker selects or lists as an alternative, has a
\* location and lies at a distance <= max_distance_km from the donor.
C14_NearbyWithinMaxDistance ==
  ( /\ IsCall("get_enhanced_ngo_recommendations")
    /\ ~location_missing(call.donor_location) ) =>
    /\ \A k \in 1..Len(call.nearby_ngos) :
         LET ngo == call.nearby_ngos[k]
         IN  /\ users[ngo.id].location = Some(ngo.latitude)
             /\ DistanceToDonor(ngo.id) <= call.max_distance_km
    /\ Combined =>
         \A j \in 1..Len(Ranking) :
           /\ \E k \in 1..Len(call.nearby_ngos) :
                call.nearby_ngos[k].id = Ranking[j].id
           /\ users[Ranking[j].id].location /= None
           /\ DistanceToDonor(Ranking[j].id) <= call.max_distance_km

C14_Witness ==
  /\ Combined
  /\ call.max_distance_km = 5010
  /\ \E j \in 1..Len(Ranking) : DistanceToDonor(Ranking[j].id) = 5010
  /\ \E i \in 1..Len(users) :
       /\ users[i].location = Some(26000)
       /\ users[i].ucapacity /= None
       /\ users[i].ucapacity[1] >= call.quantity
       /\ \A k \in 1..Len(call.nearby_ngos) : call.nearby_ngos[k].id /= i

\* C15: when the donor location is unavailable, the result is ranked by the
\* capacity score alone: the selected NGO has the highest capacity score,
\* for the quantity of the donation, among the candidates (the active NGOs
\* of the directory).
C15_CapacityOnlyWithoutLocation ==
  ( /\ IsCall("get_enhanced_ngo_recommendations")
    /\ location_missing(call.donor_location) ) =>
    LET candidates == {i \in 1..Len(users) : users[i].is_active}
        selected == call.result.suggested_ngo
    IN  selected /= None =>
          \A i \in candidates :
            calculate_capacity_score(users[i].capacity, call.quantity)
              <= calculate_capacity_score(selected[1].capacity, call.quantity)

\* C16: when the donor location is missing (None, or a dictionary without
\* a latitude), get_enhanced_ngo_recommendations does not raise and returns
\* a match result flagged proximity_enabled = false; every result produced
\* with a donor location is flagged proximity_enabled = true.
C16_ProximityEnabledFlag ==
  IsCall("get_enhanced_ngo_recommendations") =>
    LET missing == \/ call.donor_location = None
                   \/ call.donor_location[1].latitude = None
    IN  /\ missing => /\ ~call.result.raised
                      /\ call.result.proximity_enabled = FALSE
        /\ ~missing /\ ~call.result.raised =>
             call.result.proximity_enabled = TRUE

C16_Witness ==
  /\ IsCall("get_enhanced_ngo_recommendations")
  /\ call.donor_location = DonorLocation(None, None)
  /\ ~call.result.raised
  /\ call.result.suggested_ngo /= None
  /\ call.result.proximity_enabled = FALSE

\* C17: get_ngos_by_capacity(threshold) returns exactly the NGOs that are
\* active and have capacity >= threshold, each once and with its stored
\* capacity, in descending order of capacity; when no NGO qualifies it
\* returns the empty list.
C17_ActiveAboveThresholdDescending ==
  IsCall("get_ngos_by_capacity") =>
    LET result == call.result
        qualifying == {i \in 1..Len(users) :
                         /\ users[i].is_active
                         /\ users[i].capacity >= call.min_capacity}
    IN  /\ {result[k].id : k \in 1..Len(result)} = qualifying
        /\ Len(result) = Cardinality(qualifying)
        /\ \A k \in 1..Len(result) :
             result[k].capacity = users[result[k].id].capacity
        /\ CapacityDescending(result)
        /\ qualifying = {} => result = <<>>

C17_Witness ==
  /\ IsCall("get_ngos_by_capacity")
  /\ call.min_capacity = 50
  /\ Len(call.result) = 1
  /\ call.result[1].capacity = 50
  /\ \E i, j \in 1..Len(users) :
       /\ ~users[i].is_active /\ users[i].capacity = 100
       /\ users[j].is_active /\ users[j].capacity = 0

\* the results the request of call returns when both of its reads see the
\* one directory state directory
SnapshotResults(directory) ==
  LET min_capacity == IF call.include_capacity_match THEN call.quantity ELSE 1
      nearby_lists ==
        IF location_missing(call.donor_location) THEN {<<>>}
        ELSE {find_nearby_ngos(directory, users_capacity_column, row_order,
                               call.donor_location[1].latitude[1],
                               call.max_distance_km) :
                row_order \in RowOrders(nearby_rows(directory, min_capacity))}
  IN  {get_enhanced_ngo_recommendations(
         call.quantity, call.donor_location,
         suggest_best_ngo(call.quantity, available_ngos, call.ai), nearby_ngos) :
           available_ngos \in get_ngos_by_capacity(directory, 0),
           nearby_ngos \in nearby_lists}

MatchingStep == call'.op /= call.op /\ call'.op /= "none"

\* C19: no matching operation (suggest_best_ngo with its fallback
\* simple_ngo_matching, find_nearby_ngos, get_enhanced_ngo_recommendations)
\* changes the stored capacity, location or active flag of any NGO: every
\* step of a matching request leaves the directory as it was, whatever
\* other requests do between its steps.
C19_MatchingNeverWrites ==
  [][MatchingStep => users' = users /\ users_capacity_column' = users_capacity_column]_vars

C19_Witness ==
  /\ IsCall("get_enhanced_ngo_recommendations")
  /\ Cardinality(call.snapshots) = 3
  /\ users \in call.snapshots
  /\ call.result.suggested_ngo /= None
  /\ call.result.proximity_enabled

\* the candidate lists in descending order of capacity that hold the same
\* candidates as ngos
SameCandidates(ngos) ==
  {[k \in 1..Len(ngos) |-> ngos[o[k]]] : o \in RowOrders(1..Len(ngos))}

C21_ScoresInUnitInterval ==
  Combined =>
    \A j \in 1..Len(Ranking) :
      /\ Ranking[j].proximity_score \in 0..1000
      /\ Ranking[j].capacity_score \in 0..1000
      /\ Ranking[j].combined_score \in 0..1000

C21_Witness ==
  /\ Combined
  /\ \E i, j \in 1..Len(Ranking) :
       /\ Ranking[i].proximity_score = 0
       /\ Ranking[i].capacity_score = 300
       /\ Ranking[i].combined_score = 120
       /\ Ranking[j].proximity_score = 2
       /\ Ranking[j].capacity_score = 1000
       /\ Ranking[j].combined_score = 401

\* C22: for a fixed quantity > 0 the capacity score is non-decreasing as
\* the capacity increases from 0 up to 2 * quantity, and non-increasing as
\* the capacity increases beyond 5 * quantity: the score of a capacity up to
\* 2 * quantity is at least the score of every smaller capacity, and the
\* score of a capacity beyond 5 * quantity is at most the score of every
\* smaller capacity from 5 * quantity on.
C22_CapacityScoreMonotone ==
  IsCall("_calculate_capacity_score") /\ call.donation_quantity > 0 =>
    LET capacity == call.ngo_capacity
        quantity == call.donation_quantity
    IN  /\ capacity <= 2 * quantity =>
             \A smaller \in 0..capacity :
               calculate_capacity_score(smaller, quantity) <= call.result
        /\ capacity >= 5 * quantity =>
             \A smaller \in (5 * quantity)..capacity :
               calculate_capacity_score(smaller, quantity) >= call.result

C22_Witness ==
  /\ IsCall("_calculate_capacity_score")
  /\ call.donation_quantity = 4
  /\ call.ngo_capacity = 21
  /\ call.result = 600
  /\ calculate_capacity_score(20, 4) = 800

\* C23: an NGO that has no stored location never appears in the
\* proximity-based ranking: it is not in the list find_nearby_ngos returns
\* and it is neither the selection nor an alternative of the combined
\* ranker.  (The fallback matcher, which ignores location, can still
\* select it.)
C23_UnlocatedNeverRankedByProximity ==
  ( /\ IsCall("get_enhanced_ngo_recommendations")
    /\ call.donor_location /= None ) =>
    /\ \A k \in 1..Len(call.nearby_ngos) :
         users[call.nearby_ngos[k].id].location /= None
    /\ call.nearby_ngos /= <<>> =>
         \A j \in 1..Len(Ranking) : users[Ranking[j].id].location /= None

C23_Witness ==
  /\ IsCall("get_enhanced_ngo_recommendations")
  /\ call.donor_location /= None
  /\ call.nearby_ngos /= <<>>
  /\ \E i \in 1..Len(users) :
       /\ users[i].location = None
       /\ users[i].is_active
       /\ users[i].ucapacity[1] >= call.quantity
       /\ \A j \in 1..Len(Ranking) : Ranking[j].id /= i
       /\ \E available_ngos \in get_ngos_by_capacity(users, 0) :
            simple_ngo_matching(call.quantity, available_ngos).suggested_ngo
              = Some([id |-> i, capacity |-> users[i].capacity])

\* C24: for any point P calculate_distance(P, P) is 0.0, and the distance 0
\* has the proximity score 1.0 for any positive max_distance.
C24_ZeroDistanceIdentity ==
  /\ IsCall("calculate_distance") /\ call.point1 = call.point2 =>
       call.result = 0
  /\ IsCall("_calculate_proximity_score") /\ call.distance = 0 =>
       call.result = 1000

C24_Witness ==
  /\ IsCall("_calculate_proximity_score")
  /\ call.point1 = [latitude |-> 60, longitude |-> 120]
  /\ call.point2 = call.point1
  /\ call.distance = 0
  /\ call.max_distance = 25
  /\ call.result = 1000

\* C25: calculate_distance is symmetric: the distance from A to B is the
\* distance from B to A, for any two coordinate pairs A and B.
C25_DistanceSymmetric ==
  IsCall("calculate_distance") =>
    call.result = calculate_distance_on_sphere(
                    call.point2.latitude, call.point2.longitude,
                    call.point1.latitude, call.point1.longitude)

C25_Witness ==
  /\ IsCall("calculate_distance")
  /\ call.point1 = [latitude |-> 60, longitude |-> 0]
  /\ call.point2 = [latitude |-> -30, longitude |-> 120]
  /\ call.result > 0

\* C26: whenever get_enhanced_ngo_recommendations is called with a donor
\* location and returns a selected NGO in a result flagged
\* proximity_enabled = true, the selected NGO and every alternative have a
\* location within max_distance_km of the donor, also when find_nearby_ngos
\* found nothing in range.
C26_ProximityResultsWithinRange ==
  ( /\ IsCall("get_enhanced_ngo_recommendations")
    /\ ~location_missing(call.donor_location)
    /\ ~call.result.raised
    /\ call.result.proximity_enabled
    /\ call.result.suggested_ngo /= None ) =>
    \A j \in 1..Len(Ranking) :
      /\ users[Ranking[j].id].location /= None
      /\ DistanceToDonor(Ranking[j].id) <= call.max_distance_km

Notified == call.op \in {"show_donate_page:317", "show_donate_page"}

C29_RecommendedWasNotified ==
  ( /\ IsCall("show_donate_page")
    /\ call.quality_prediction = "Fresh"
    /\ call.recommended_ngo /= None ) =>
    \E k \in 1..Len(call.notified) :
      call.notified[k] = call.recommended_ngo[1].id

\* C30: a donation has at most one pickup request: create_donation_request
\* moves the donation to 'Requested', and no second donation_requests row
\* is created for the same donation, also when two NGOs that both loaded
\* the donation submit their requests one after the other.
C30_AtMostOneRequest ==
  /\ call.op = "create_donation_request"
       => donations[call.donation_id].status = "Requested"
  /\ \A r1, r2 \in 1..Len(donation_requests) :
       donation_requests[r1].donation_id = donation_requests[r2].donation_id
         => r1 = r2

====
